---------------------------- MODULE Spec2Model ----------------------------
(***************************************************************************)
(* Model of the timelapse-manager capture scheduler and job state          *)
(* calculators.                                                             *)
(*                                                                         *)
(* Time is an integer number of seconds since local midnight of day 0      *)
(* (TZ = UTC, no DST).  A Python `time` object is a number of seconds      *)
(* since midnight; an "HH:MM" string is the minute of the day HH*60+MM.    *)
(* SQL NULL / Python None is Null.                                          *)
(***************************************************************************)
EXTENDS Integers, Sequences, FiniteSets, TLC

Null == -1

SecondsPerMinute == 60
SecondsPerDay == 86400

(* ------------------------------------------------------------------ *)
(* Bounds of the model                                                 *)
(* ------------------------------------------------------------------ *)

\* the clock runs over T0 + ClockStep * (0 .. MaxSteps)
MaxSteps == 10
\* capture rows kept in the captures table; further captures fail
MaxCaptures == 2
\* PATCH requests served
MaxPatches == 2

(* ------------------------------------------------------------------ *)
(* datetime helpers                                                    *)
(* ------------------------------------------------------------------ *)

\* datetime.time(): the time of day of an instant
TimeOf(t) == t % SecondsPerDay

\* datetime.date() as the instant of that day's midnight
DateOf(t) == t - (t % SecondsPerDay)

\* time(hour, minute): a time of day with its seconds dropped, as minute of day
HourMinute(tod) == tod \div SecondsPerMinute

(* ------------------------------------------------------------------ *)
(* services/time_window.py                                             *)
(* ------------------------------------------------------------------ *)

\* "HH:MM" (minute of the day) -> time object (seconds since midnight)
parse_time_string(time_str) == time_str * SecondsPerMinute

\* C15 mutant: the minute of the window end is outside the window
tw_is_time_in_window_EndExclusive(current_time, start_time, end_time) ==
    LET current_hm == HourMinute(current_time)
        start_hm == HourMinute(start_time)
        end_hm == HourMinute(end_time)
    IN  IF start_hm = end_hm THEN current_hm = start_hm
        ELSE IF start_hm < end_hm THEN start_hm <= current_hm /\ current_hm < end_hm
        ELSE current_hm >= start_hm \/ current_hm < end_hm

tw_is_time_in_window(current_time, start_time, end_time) ==
    LET current_hm == HourMinute(current_time)
        start_hm == HourMinute(start_time)
        end_hm == HourMinute(end_time)
    IN  IF start_hm = end_hm THEN current_hm = start_hm
        ELSE IF start_hm < end_hm THEN start_hm <= current_hm /\ current_hm <= end_hm
        ELSE current_hm >= start_hm \/ current_hm <= end_hm

tw_calculate_next_window_start(t, start_time, end_time) ==
    LET current_time == TimeOf(t)
        today_start == DateOf(t) + start_time
    IN  IF tw_is_time_in_window(current_time, start_time, end_time)
        THEN today_start + SecondsPerDay
        ELSE IF start_time < end_time
        THEN (IF current_time < start_time THEN today_start
              ELSE today_start + SecondsPerDay)
        ELSE (IF current_time < end_time THEN today_start
              ELSE IF current_time < start_time THEN today_start
              ELSE today_start + SecondsPerDay)

\* returns <<should_capture, reason>>
should_job_capture_now(job, t) ==
    IF job.end_datetime # Null /\ t >= job.end_datetime THEN <<FALSE, "ended">>
    ELSE IF t < job.start_datetime THEN <<FALSE, "not_started">>
    ELSE IF job.time_window_enabled
            /\ ~tw_is_time_in_window(TimeOf(t), parse_time_string(job.time_window_start),
                                     parse_time_string(job.time_window_end))
    THEN <<FALSE, "outside_window">>
    ELSE <<TRUE, "ok">>

\* the `while next_capture <= now` loop of the grid calculation
RECURSIVE SkipMissed(_, _, _, _)
SkipMissed(start_dt, interval, intervals_passed, t) ==
    LET next_capture == start_dt + (intervals_passed + 1) * interval
    IN  IF next_capture <= t
        THEN SkipMissed(start_dt, interval, intervals_passed + 1, t)
        ELSE next_capture

\* start + (int(elapsed / interval) + 1) * interval, then the skip loop
GridNext(start_dt, interval, t) ==
    SkipMissed(start_dt, interval, (t - start_dt) \div interval, t)

calculate_next_scheduled_capture(job, t) ==
    LET start_dt == job.start_datetime
        interval == job.interval_seconds
        sc == should_job_capture_now(job, t)
    IN  IF t < start_dt THEN start_dt
        ELSE IF sc[1]
        THEN LET next_capture == GridNext(start_dt, interval, t)
             IN  IF job.end_datetime # Null /\ next_capture > job.end_datetime
                 THEN Null ELSE next_capture
        ELSE IF sc[2] = "outside_window"
        THEN LET next_window == tw_calculate_next_window_start(
                                    t, parse_time_string(job.time_window_start),
                                    parse_time_string(job.time_window_end))
             IN  IF job.end_datetime # Null /\ next_window > job.end_datetime
                 THEN Null ELSE next_window
        ELSE Null

(* ------------------------------------------------------------------ *)
(* services/job_state.py                                               *)
(* ------------------------------------------------------------------ *)

max_days == 30
SafetyLimitPerDay == 1000

\* C12 mutant: a slot that is exactly end_datetime is refused
calculate_next_capture_on_grid_EndExclusive(job, reference_time) ==
    IF reference_time < job.start_datetime THEN job.start_datetime
    ELSE LET next_capture == SkipMissed(job.start_datetime, job.interval_seconds,
                                 (reference_time - job.start_datetime)
                                     \div job.interval_seconds,
                                 reference_time)
         IN  IF job.end_datetime # Null /\ next_capture >= job.end_datetime
             THEN Null ELSE next_capture

calculate_next_capture_on_grid(job, reference_time) ==
    LET start_dt == job.start_datetime
        end_dt == job.end_datetime
        interval == job.interval_seconds
    IN  IF reference_time < start_dt THEN start_dt
        ELSE LET next_capture == SkipMissed(start_dt, interval,
                                     (reference_time - start_dt) \div interval,
                                     reference_time)
             IN  IF end_dt # Null /\ next_capture > end_dt THEN Null ELSE next_capture

js_is_time_in_window(check_time, start_time, end_time) ==
    LET current_hm == HourMinute(check_time)
        start_hm == HourMinute(start_time)
        end_hm == HourMinute(end_time)
    IN  IF start_hm = end_hm THEN current_hm = start_hm
        ELSE IF start_hm < end_hm THEN start_hm <= current_hm /\ current_hm <= end_hm
        ELSE current_hm >= start_hm \/ current_hm <= end_hm

js_calculate_next_window_start(reference_time, start_time, end_time) ==
    LET current_time == TimeOf(reference_time)
        today_start == DateOf(reference_time) + start_time
    IN  IF js_is_time_in_window(current_time, start_time, end_time)
        THEN today_start + SecondsPerDay
        ELSE IF start_time < end_time
        THEN (IF current_time < start_time THEN today_start
              ELSE today_start + SecondsPerDay)
        ELSE (IF current_time >= start_time THEN today_start
              ELSE today_start - SecondsPerDay)

\* the inner `for _ in range(1000)` loop of find_next_capture_in_window:
\* <<"found", slot>>, <<"none">> (return None) or <<"next_day">> (break / exhausted)
RECURSIVE SearchDay(_, _, _, _, _, _)
SearchDay(job, search_time, window_end_time, start_time, end_time, n) ==
    IF n = 0 THEN <<"next_day">>
    ELSE LET candidate == calculate_next_capture_on_grid(job, search_time)
         IN  IF candidate = Null THEN <<"none">>
             ELSE IF candidate > window_end_time THEN <<"next_day">>
             ELSE IF js_is_time_in_window(TimeOf(candidate), start_time, end_time)
             THEN <<"found", candidate>>
             ELSE SearchDay(job, candidate, window_end_time, start_time, end_time, n - 1)

\* the outer `for day_offset in range(max_days)` loop
RECURSIVE SearchDays(_, _, _, _, _)
SearchDays(job, window_start, start_time, end_time, day_offset) ==
    IF day_offset >= max_days THEN Null
    ELSE LET current_window_start == window_start + day_offset * SecondsPerDay
             end_dt == job.end_datetime
             window_end_time ==
                 DateOf(current_window_start) + end_time
                 + (IF end_time < start_time THEN SecondsPerDay ELSE 0)
             r == SearchDay(job, current_window_start - 1, window_end_time,
                            start_time, end_time, SafetyLimitPerDay)
         IN  IF end_dt # Null /\ current_window_start > end_dt THEN Null
             ELSE IF r[1] = "found" THEN r[2]
             ELSE IF r[1] = "none" THEN Null
             ELSE SearchDays(job, window_start, start_time, end_time, day_offset + 1)

\* C13 mutant: the instant the window opens is returned, on the grid or not
find_next_capture_in_window_WindowStart(job, window_start, start_time, end_time) ==
    window_start

find_next_capture_in_window(job, window_start, start_time, end_time) ==
    SearchDays(job, window_start, start_time, end_time, 0)

\* C11 mutant: a pending capture exactly 2 intervals old is still kept
pending_capture_kept_Inclusive(job, reference_time, pending_capture_time) ==
    /\ pending_capture_time # Null
    /\ pending_capture_time >= reference_time - job.interval_seconds * 2
    /\ \/ ~job.time_window_enabled
       \/ /\ js_is_time_in_window(TimeOf(reference_time),
                                  parse_time_string(job.time_window_start),
                                  parse_time_string(job.time_window_end))
          /\ js_is_time_in_window(TimeOf(pending_capture_time),
                                  parse_time_string(job.time_window_start),
                                  parse_time_string(job.time_window_end))

\* C10 mutant: the pending capture is never kept
pending_capture_kept_Never(job, reference_time, pending_capture_time) == FALSE

\* the "if pending_capture_time:" block: TRUE when the pending capture is
\* returned as it is (within the grace period of 2 intervals and, for a job
\* with a window, reference time and pending capture both inside the window)
pending_capture_kept(job, reference_time, pending_capture_time) ==
    LET grace_period == job.interval_seconds * 2
        start_time == parse_time_string(job.time_window_start)
        end_time == parse_time_string(job.time_window_end)
    IN  /\ pending_capture_time # Null
        /\ pending_capture_time > reference_time - grace_period
        /\ \/ ~job.time_window_enabled
           \/ /\ js_is_time_in_window(TimeOf(reference_time), start_time, end_time)
              /\ js_is_time_in_window(TimeOf(pending_capture_time), start_time, end_time)

\* returns <<status, next_capture_time>> (the reason string is not modelled)
calculate_job_state(job, reference_time, pending_capture_time) ==
    LET start_dt == job.start_datetime
        start_time == parse_time_string(job.time_window_start)
        end_time == parse_time_string(job.time_window_end)
        next_capture == calculate_next_capture_on_grid(job, reference_time)
    IN  IF job.status = "disabled" THEN <<"disabled", Null>>
        ELSE IF reference_time < start_dt THEN <<"sleeping", start_dt>>
        ELSE IF pending_capture_kept(job, reference_time, pending_capture_time)
        THEN <<"active", pending_capture_time>>
        ELSE IF next_capture = Null THEN <<"completed", Null>>
        ELSE IF job.time_window_enabled
        THEN IF /\ js_is_time_in_window(TimeOf(reference_time), start_time, end_time)
                /\ js_is_time_in_window(TimeOf(next_capture), start_time, end_time)
             THEN <<"active", next_capture>>
             ELSE LET next_window_start ==
                          js_calculate_next_window_start(reference_time, start_time, end_time)
                      window_capture ==
                          find_next_capture_in_window(job, next_window_start,
                                                      start_time, end_time)
                  IN  IF window_capture = Null THEN <<"completed", Null>>
                      ELSE <<"sleeping", window_capture>>
        ELSE <<"active", next_capture>>

(* ------------------------------------------------------------------ *)
(* Inputs of the model                                                 *)
(* ------------------------------------------------------------------ *)

\* time.sleep(10) between two ticks of the scheduler loop
TickSleep == 10
\* consecutive failures after which warning_message is set
WarningThreshold == 3
max_workers == 5
\* JobCreate.interval_seconds: Field(ge=10)
MinInterval == 10

\* the clock starts at 08:00:35 and advances in steps of one tick period
T0 == 8 * 3600 + 35
ClockStep == TickSleep
Horizon == T0 + ClockStep * MaxSteps

JobIds == {1}

StartTimes == {T0 - 5, T0 + 25}
EndTimes == {Null, T0 + 55}
Intervals == {40, 90000}
\* <<enabled, "HH:MM" start, "HH:MM" end>>: no window, the single minute 08:01,
\* and 08:02-08:00, which crosses midnight
Windows == {<<FALSE, Null, Null>>, <<TRUE, 481, 481>>, <<TRUE, 482, 480>>}

\* JobUpdate bodies: a field that is not given is Null (end_set tells whether
\* end_datetime is in model_fields_set)
NoUpdate == [name |-> FALSE, status |-> "unset", interval_seconds |-> Null,
             end_set |-> FALSE, end_datetime |-> Null, start_datetime |-> Null]
PatchInputs ==
    { [NoUpdate EXCEPT !.status = st] : st \in {"disabled", "active", "completed"} }
    \cup { [NoUpdate EXCEPT !.name = TRUE] }
    \cup { [NoUpdate EXCEPT !.interval_seconds = 30] }

(* ------------------------------------------------------------------ *)
(* State                                                               *)
(* ------------------------------------------------------------------ *)

VARIABLES
    now,                  \* the wall clock (get_now())
    jobs,                 \* table jobs: id -> row
    next_id,              \* AUTOINCREMENT of jobs.id
    captures,             \* table captures, in insertion order: job_id, and as history
                          \*   the scheduled instant of the task that inserted the row
    scheduled_captures,   \* CaptureScheduler.scheduled_captures: job_id -> time or Null
    failure_counts,       \* CaptureScheduler.failure_counts
    captures_in_progress, \* CaptureScheduler.captures_in_progress
    tasks,                \* _capture_and_update calls submitted to the executor, not yet finished
    tick_sleep,           \* what is left of the loop's time.sleep(10)
    patches,              \* history: PATCH requests served so far
    marks,                \* history: captures_in_progress.add(job_id) calls not yet discarded
    dispatched,           \* history: <<job_id, scheduled instant>> of every submitted task
    redispatched,         \* history: those submitted more than once
    streak,               \* history: per job, the failed captures since its last successful one
    sched_prev,           \* history: per job, the scheduler's write of
    sched_last,           \*   next_scheduled_capture_at before the last one, and the last one
    calls                 \* history: the calls of the function under study (the calculators
                          \*   on one input, or the last request answered with an error), or
                          \*   the state of the part of the program under study that the
                          \*   variables above do not hold (thread positions, capture rows)

vars == <<now, jobs, next_id, captures, scheduled_captures, failure_counts,
          captures_in_progress, tasks, tick_sleep, patches, marks, dispatched, redispatched,
          streak, sched_prev, sched_last, calls>>

\* the variables of the scheduler and the HTTP handlers
svars == <<now, jobs, next_id, captures, scheduled_captures, failure_counts,
           captures_in_progress, tasks, tick_sleep, patches, marks, dispatched,
           redispatched, streak, sched_prev, sched_last>>

Put(f, k, v) == [x \in DOMAIN f \cup {k} |-> IF x = k THEN v ELSE f[x]]
Pop(f, k) == [x \in DOMAIN f \ {k} |-> f[x]]
Get(f, k, d) == IF k \in DOMAIN f THEN f[k] ELSE d
Min(S) == CHOOSE m \in S : \A x \in S : m <= x

\* the rows of a SELECT in rowid order
RECURSIVE IdSeq(_)
IdSeq(S) == IF S = {} THEN <<>> ELSE <<Min(S)>> \o IdSeq(S \ {Min(S)})

InWindowOf(job, t) ==
    tw_is_time_in_window(TimeOf(t), parse_time_string(job.time_window_start),
                         parse_time_string(job.time_window_end))

\* the process after CaptureScheduler() on an empty database
Idle ==
    /\ now = T0
    /\ jobs = <<>>
    /\ next_id = 1
    /\ captures = <<>>
    /\ scheduled_captures = <<>>
    /\ failure_counts = <<>>
    /\ captures_in_progress = {}
    /\ tasks = {}
    /\ tick_sleep = 0
    /\ patches = 0
    /\ marks = [j \in JobIds |-> 0]
    /\ dispatched = {}
    /\ redispatched = {}
    /\ streak = <<>>
    /\ sched_prev = [j \in JobIds |-> Null]
    /\ sched_last = [j \in JobIds |-> Null]

NoCall == [reference_time |-> Null, result |-> <<"none", Null>>]
NoCalls == [job |-> Null, pending |-> Null, prev |-> NoCall, last |-> NoCall]

Init == Idle /\ calls = NoCalls

(* ------------------------------------------------------------------ *)
(* routers/jobs.py: the HTTP handlers (each runs in the event loop     *)
(* thread without awaiting, concurrently with the scheduler threads)   *)
(* ------------------------------------------------------------------ *)

\* models.JobCreate.validate_dates and the Field constraints
JobCreateValid(cfg) ==
    /\ cfg.interval_seconds >= MinInterval
    /\ cfg.end_datetime # Null =>
          /\ cfg.end_datetime > cfg.start_datetime
          /\ cfg.end_datetime >= cfg.start_datetime + cfg.interval_seconds
          /\ cfg.end_datetime >= now

StatusFor(job, t) == IF should_job_capture_now(job, t)[1] THEN "active" ELSE "sleeping"

\* POST /api/jobs.  to_iso(None) raises when no next capture exists: the
\* transaction is rolled back and no row is left.
JobConfig(sd, ed, iv, w) ==
    [start_datetime |-> sd, end_datetime |-> ed, interval_seconds |-> iv,
     time_window_enabled |-> w[1], time_window_start |-> w[2],
     time_window_end |-> w[3]]

\* the row POST /api/jobs leaves for a request served at time t
CreatedRow(cfg, t) ==
    [start_datetime |-> cfg.start_datetime, end_datetime |-> cfg.end_datetime,
     interval_seconds |-> cfg.interval_seconds,
     time_window_enabled |-> cfg.time_window_enabled,
     time_window_start |-> cfg.time_window_start,
     time_window_end |-> cfg.time_window_end,
     status |-> StatusFor(cfg, t),
     next_scheduled_capture_at |-> calculate_next_scheduled_capture(cfg, t),
     warning_message |-> Null]

create_job(sd, ed, iv, w) ==
    LET cfg == JobConfig(sd, ed, iv, w)
        next_capture_at == calculate_next_scheduled_capture(cfg, now)
        row == CreatedRow(cfg, now)
    IN  /\ next_id \in JobIds
        /\ JobCreateValid(cfg)
        /\ next_capture_at # Null
        /\ jobs' = Put(jobs, next_id, row)
        /\ next_id' = next_id + 1
        /\ sched_prev' = [sched_prev EXCEPT ![next_id] = Null]
        /\ sched_last' = [sched_last EXCEPT ![next_id] = Null]
        /\ UNCHANGED <<now, captures, scheduled_captures, failure_counts,
                       captures_in_progress, tasks, tick_sleep, patches, marks, dispatched,
                       redispatched, streak, calls>>

CreateJob ==
    \E sd \in StartTimes, ed \in EndTimes, iv \in Intervals, w \in Windows :
        create_job(sd, ed, iv, w)

\* the end_datetime validation of PATCH: TRUE when the request is answered 400
EndRejected(cur, upd) ==
    /\ upd.end_set
    /\ upd.end_datetime # Null
    /\ upd.status # "completed"
    /\ \/ upd.end_datetime <= now
       \/ upd.end_datetime < now + cur.interval_seconds

\* PATCH: the row with the request's fields applied (updated_job)
UpdatedJob(cur, upd) ==
    [cur EXCEPT
       !.start_datetime = IF upd.start_datetime # Null THEN upd.start_datetime ELSE @,
       !.end_datetime = IF upd.end_set THEN upd.end_datetime ELSE @,
       !.interval_seconds =
           IF upd.interval_seconds # Null THEN upd.interval_seconds ELSE @]

Reenable(cur, upd) == upd.status = "active" /\ cur.status = "disabled"

\* schedule_changed or status_needs_recalc, for a job that is not disabled
Recalc(cur, upd) ==
    /\ \/ upd.interval_seconds # Null
       \/ upd.start_datetime # Null
       \/ upd.end_datetime # Null
    /\ cur.status \in {"active", "sleeping", "completed"}

\* FALSE when PATCH answers 400 or raises in to_iso(None): the row stays as it was
PatchAccepted(cur, upd) ==
    /\ ~EndRejected(cur, upd)
    /\ Reenable(cur, upd) => calculate_next_scheduled_capture(cur, now) # Null
    /\ Recalc(cur, upd) =>
           calculate_next_scheduled_capture(UpdatedJob(cur, upd), now) # Null

\* the row PATCH leaves
PatchedRow(cur, upd) ==
    LET updated_job == UpdatedJob(cur, upd)
        \* the UPDATE statement: of a column set twice the rightmost assignment counts
        written ==
            [updated_job EXCEPT
               !.status = IF Recalc(cur, upd) THEN StatusFor(updated_job, now)
                          ELSE IF upd.status # "unset" THEN upd.status ELSE @,
               !.next_scheduled_capture_at =
                   IF Recalc(cur, upd)
                   THEN calculate_next_scheduled_capture(updated_job, now)
                   ELSE IF Reenable(cur, upd)
                   THEN calculate_next_scheduled_capture(cur, now) ELSE @]
    IN  \* "Always recalculate status for active/sleeping jobs after any update"
        IF written.status \in {"active", "sleeping"}
        THEN [written EXCEPT !.status = StatusFor(written, now)]
        ELSE written

\* PATCH /api/jobs/{id}
update_job(j, upd) ==
    /\ j \in DOMAIN jobs
    /\ patches < MaxPatches
    /\ patches' = patches + 1
    /\ PatchAccepted(jobs[j], upd)
    /\ LET row == PatchedRow(jobs[j], upd)
       IN  /\ jobs' = [jobs EXCEPT ![j] = row]
           /\ IF row.next_scheduled_capture_at # jobs[j].next_scheduled_capture_at
              THEN /\ sched_prev' = [sched_prev EXCEPT ![j] = Null]
                   /\ sched_last' = [sched_last EXCEPT ![j] = Null]
              ELSE UNCHANGED <<sched_prev, sched_last>>
    /\ UNCHANGED <<now, next_id, captures, scheduled_captures, failure_counts,
                   captures_in_progress, tasks, tick_sleep, marks, dispatched,
                   redispatched, streak, calls>>

UpdateJob == \E j \in JobIds, upd \in PatchInputs : update_job(j, upd)

\* DELETE /api/jobs/{id}: DELETE FROM jobs WHERE id = ?
delete_job(j) ==
    /\ j \in DOMAIN jobs
    /\ jobs' = Pop(jobs, j)
    /\ UNCHANGED <<now, next_id, captures, scheduled_captures, failure_counts,
                   captures_in_progress, tasks, tick_sleep, patches, marks, dispatched,
                   redispatched, streak, sched_prev, sched_last, calls>>

DeleteJob == \E j \in JobIds : delete_job(j)

\* the wall clock advances by one tick period while the loop thread sleeps or
\* waits for its captures; a loop thread whose sleep is over runs its tick first
Advance ==
    /\ now + ClockStep <= Horizon
    /\ tick_sleep > 0 \/ tasks # {}
    /\ now' = now + ClockStep
    \* the sleep starts when the tick's captures are done
    /\ tick_sleep' = IF tick_sleep > ClockStep THEN tick_sleep - ClockStep ELSE 0
    /\ UNCHANGED <<jobs, next_id, captures, scheduled_captures, failure_counts,
                   captures_in_progress, tasks, patches, marks, dispatched,
                   redispatched, streak, sched_prev, sched_last, calls>>

(* ------------------------------------------------------------------ *)
(* services/capture_scheduler.py: one tick, _check_and_capture         *)
(* ------------------------------------------------------------------ *)

\* "First, update any completed jobs": the rows the UPDATE matches
EndedRow(row, t) ==
    /\ row.status \in {"active", "sleeping"}
    /\ row.end_datetime # Null
    /\ row.end_datetime < t

MarkCompleted(db, t) ==
    [j \in DOMAIN db |->
        IF EndedRow(db[j], t)
        THEN [db[j] EXCEPT !.status = "completed", !.warning_message = Null]
        ELSE db[j]]

\* if cursor.rowcount > 0: every completed job leaves scheduled_captures
PopCompleted(db, sc, t) ==
    IF \E j \in DOMAIN db : EndedRow(db[j], t)
    THEN [j \in {x \in DOMAIN sc :
                   ~(x \in DOMAIN db /\ MarkCompleted(db, t)[x].status = "completed")}
            |-> sc[j]]
    ELSE sc

\* C36 mutant: the SELECT without its status condition
Selected_AnyStatus(db, t) ==
    {j \in DOMAIN db :
        /\ db[j].start_datetime <= t
        /\ db[j].end_datetime = Null \/ db[j].end_datetime >= t}

\* "Get active and sleeping jobs"
Selected(db, t) ==
    {j \in DOMAIN db :
        /\ db[j].status \in {"active", "sleeping"}
        /\ db[j].start_datetime <= t
        /\ db[j].end_datetime = Null \/ db[j].end_datetime >= t}

\* a pending capture whose scheduled time is inside the window delays the sleep
ShouldDelaySleep(job, j, sc) ==
    LET scheduled_time == Get(sc, j, Null)
    IN  /\ scheduled_time # Null
        /\ job.time_window_enabled
        /\ InWindowOf(job, scheduled_time)

\* what the first loop does with a job: "sleep", "wake" or "none"
Transition(job, j, sc, t) ==
    LET c == should_job_capture_now(job, t)
    IN  IF ~c[1] /\ c[2] = "outside_window"
        THEN (IF job.status # "sleeping" /\ ~ShouldDelaySleep(job, j, sc)
              THEN "sleep" ELSE "none")
        ELSE IF c[1] /\ job.status = "sleeping" THEN "wake"
        ELSE "none"

\* next_scheduled_for_sleep
SleepUntil(job, t) ==
    tw_calculate_next_window_start(t, parse_time_string(job.time_window_start),
                                   parse_time_string(job.time_window_end))

\* capture_time of a job that wakes up
WakeCaptureTime(job, t) ==
    LET existing_scheduled == job.next_scheduled_capture_at
    IN  IF existing_scheduled = Null \/ existing_scheduled < t THEN t
        ELSE existing_scheduled

\* the first loop ("FIRST: Update job statuses"), on the state
\* [db, sc, dicts, writes]: the table, scheduled_captures, the job dicts of the
\* SELECT and the values written to next_scheduled_capture_at
RECURSIVE UpdateStatuses(_, _, _)
UpdateStatuses(st, ids, t) ==
    IF ids = <<>> THEN st
    ELSE LET j == Head(ids)
             job == st.dicts[j]
             tr == Transition(job, j, st.sc, t)
             st1 ==
               IF tr = "sleep"
               THEN [st EXCEPT
                       !.db[j].status = "sleeping",
                       !.db[j].next_scheduled_capture_at = SleepUntil(job, t),
                       !.db[j].warning_message = Null,
                       !.sc = Pop(st.sc, j),
                       !.dicts[j].status = "sleeping",
                       !.writes = Put(st.writes, j, SleepUntil(job, t))]
               ELSE IF tr = "wake"
               THEN [st EXCEPT
                       !.db[j].status = "active",
                       !.db[j].next_scheduled_capture_at = WakeCaptureTime(job, t),
                       !.sc = Put(st.sc, j, WakeCaptureTime(job, t)),
                       !.dicts[j].status = "active",
                       !.dicts[j].next_scheduled_capture_at = WakeCaptureTime(job, t),
                       !.writes = Put(st.writes, j, WakeCaptureTime(job, t))]
               ELSE st
         IN  UpdateStatuses(st1, Tail(ids), t)

\* _calculate_and_set_next_capture on the state [db, sc, writes, raised]: the
\* memory entry is set first; to_iso(None) raises before the UPDATE when there
\* is no next capture
CalculateAndSet(st, j, job, reference_time) ==
    LET next_capture == calculate_next_scheduled_capture(job, reference_time)
    IN  IF next_capture = Null
        THEN [st EXCEPT !.sc = Put(st.sc, j, Null), !.raised = TRUE]
        ELSE [st EXCEPT
                !.sc = Put(st.sc, j, next_capture),
                !.db = IF j \in DOMAIN st.db
                       THEN [st.db EXCEPT ![j].next_scheduled_capture_at = next_capture]
                       ELSE st.db,
                !.writes = IF j \in DOMAIN st.db
                           THEN Put(st.writes, j, next_capture) ELSE st.writes]

\* "if job_id not in self.captures_in_progress"
NotInProgress(cip, j) == j \notin cip

\* C1 mutant: the tick does not add the job id to the in-flight set
AddInProgress_Forgotten(cip, j) == cip

\* self.captures_in_progress.add(job_id)
AddInProgress(cip, j) == cip \cup {j}

\* a job of the second loop that is not in scheduled_captures yet
Schedule(st, j, job, t) ==
    IF j \in DOMAIN st.sc THEN st
    ELSE IF job.next_scheduled_capture_at # Null /\ job.next_scheduled_capture_at > t
    THEN [st EXCEPT !.sc = Put(st.sc, j, job.next_scheduled_capture_at)]
    ELSE CalculateAndSet(st, j, job, t)

\* "Check if scheduled time has arrived" and the window check on the scheduled time
Due(job, scheduled_time, t) ==
    /\ scheduled_time # Null
    /\ t >= scheduled_time
    /\ job.time_window_enabled => InWindowOf(job, scheduled_time)

\* the second loop ("SECOND: Collect jobs that need capturing"), on the state
\* [db, sc, dicts, writes, raised, cip, marks, batch]; an exception ends the tick
RECURSIVE CollectJobs(_, _, _)
CollectJobs(st, ids, t) ==
    IF ids = <<>> \/ st.raised THEN st
    ELSE LET j == Head(ids)
             job == st.dicts[j]
             st1 == IF job.status = "sleeping" THEN st ELSE Schedule(st, j, job, t)
             st2 ==
               IF job.status = "sleeping" \/ st1.raised THEN st1
               ELSE IF Due(job, st1.sc[j], t) /\ NotInProgress(st1.cip, j)
               THEN [st1 EXCEPT !.batch = @ \cup {j},
                                !.cip = AddInProgress(@, j),
                                !.marks[j] = @ + 1]
               ELSE st1
         IN  CollectJobs(st2, Tail(ids), t)

\* the state _check_and_capture leaves before it submits the captures
TickResult(t) ==
    LET db0 == MarkCompleted(jobs, t)
        sel == Selected(db0, t)
        st0 == [db |-> db0, sc |-> PopCompleted(jobs, scheduled_captures, t),
                dicts |-> [j \in sel |-> db0[j]], writes |-> <<>>, raised |-> FALSE,
                cip |-> captures_in_progress, marks |-> marks, batch |-> {}]
    IN  CollectJobs(UpdateStatuses(st0, IdSeq(sel), t), IdSeq(sel), t)

\* the history of the scheduler's writes of next_scheduled_capture_at
WritesPrev(writes) ==
    [j \in DOMAIN sched_prev |-> IF j \in DOMAIN writes THEN sched_last[j] ELSE sched_prev[j]]
WritesLast(writes) ==
    [j \in DOMAIN sched_last |-> IF j \in DOMAIN writes THEN writes[j] ELSE sched_last[j]]

\* the submitted tasks that a worker thread of the executor is running
Executing(ts) == {x \in ts : x.running}

\* C20 mutant: every submitted task gets a thread at once
StartWorkers_Unbounded(ts) == {[x EXCEPT !.running = TRUE] : x \in ts}

\* ThreadPoolExecutor(max_workers=5): the tasks wait in the executor's queue
\* in the order of their submission (the order of the job rows) and are taken
\* from it while fewer than max_workers threads are busy
StartWorkers(ts) ==
    LET queued == ts \ Executing(ts)
        free == max_workers - Cardinality(Executing(ts))
        taken == {x \in queued :
                     Cardinality({y \in queued : y.job_id < x.job_id}) < free}
    IN  (ts \ taken) \cup {[x EXCEPT !.running = TRUE] : x \in taken}

\* _execute_captures_parallel: one _capture_and_update(job, capture_time) per job
Submitted(r, t) ==
    IF r.raised THEN {}
    ELSE {[job_id |-> j, job |-> r.dicts[j], capture_time |-> t,
           scheduled_time |-> r.sc[j], running |-> FALSE] : j \in r.batch}

\* one iteration of _run_loop up to the submission of the captures; the loop
\* thread then waits for all of them (as_completed) before it sleeps
check_and_capture ==
    /\ tasks = {}
    /\ tick_sleep = 0
    /\ LET r == TickResult(now)
           new == Submitted(r, now)
           keys == {<<x.job_id, x.scheduled_time>> : x \in new}
       IN  /\ jobs' = r.db
           /\ scheduled_captures' = r.sc
           /\ captures_in_progress' = r.cip
           /\ marks' = r.marks
           /\ tasks' = StartWorkers(new)
           /\ tick_sleep' = IF new = {} THEN TickSleep ELSE tick_sleep
           /\ dispatched' = dispatched \cup keys
           /\ redispatched' = redispatched \cup (dispatched \cap keys)
           /\ sched_prev' = WritesPrev(r.writes)
           /\ sched_last' = WritesLast(r.writes)
    /\ UNCHANGED <<now, next_id, captures, failure_counts, patches, streak, calls>>

(* ------------------------------------------------------------------ *)
(* a capture task: _capture_and_update with capture_image              *)
(* ------------------------------------------------------------------ *)

\* one more failed capture in a row; counts above the threshold are not told apart
Failed(n) == IF n > WarningThreshold THEN n ELSE n + 1

\* C16 mutant: the first failed capture already writes the warning
AfterCapture_FirstFailure(db, j, success, fc) ==
    IF j \notin DOMAIN db THEN db
    ELSE IF success THEN [db EXCEPT ![j].warning_message = Null]
    ELSE [db EXCEPT ![j].warning_message = fc]

\* C17 mutant: the warning is written one failure late
AfterCapture_FourthFailure(db, j, success, fc) ==
    IF j \notin DOMAIN db THEN db
    ELSE IF success THEN [db EXCEPT ![j].warning_message = Null]
    ELSE IF fc > WarningThreshold THEN [db EXCEPT ![j].warning_message = fc]
    ELSE [db EXCEPT ![j].warning_message = Null]

\* the jobs table after capture_image and the failure bookkeeping
\* (fc is the new consecutive-failure count)
AfterCapture(db, j, success, fc) ==
    IF j \notin DOMAIN db THEN db
    ELSE IF success THEN [db EXCEPT ![j].warning_message = Null]
    ELSE IF fc >= WarningThreshold THEN [db EXCEPT ![j].warning_message = fc]
    ELSE [db EXCEPT ![j].warning_message = Null]

\* the finally block up to the discard, on [db, sc, writes, raised]
Reschedule(st, task) ==
    IF task.job_id \in DOMAIN st.db /\ st.db[task.job_id].status = "active"
    THEN CalculateAndSet(st, task.job_id, task.job, task.capture_time)
    ELSE st

\* the task of one job runs to its end.  The stream decides success; a job
\* whose row is gone makes capture_image fail (fetchone() is None).
capture_and_update(task, success) ==
    LET j == task.job_id
        fc == IF success THEN 0 ELSE Get(failure_counts, j, 0) + 1
        r == Reschedule([db |-> AfterCapture(jobs, j, success, fc),
                         sc |-> scheduled_captures, writes |-> <<>>,
                         raised |-> FALSE], task)
    IN  /\ task \in Executing(tasks)
        /\ success => j \in DOMAIN jobs /\ Len(captures) < MaxCaptures
        /\ captures' = IF success
                       THEN Append(captures, [job_id |-> j,
                                              scheduled_time |-> task.scheduled_time])
                       ELSE captures
        /\ failure_counts' = Put(failure_counts, j, fc)
        /\ streak' = Put(streak, j, IF success THEN 0 ELSE Failed(Get(streak, j, 0)))
        /\ jobs' = r.db
        /\ scheduled_captures' = r.sc
        \* an exception in the finally block skips the discard
        /\ captures_in_progress' =
               IF r.raised THEN captures_in_progress ELSE captures_in_progress \ {j}
        /\ marks' = IF r.raised THEN marks ELSE [marks EXCEPT ![j] = 0]
        /\ tasks' = StartWorkers(tasks \ {task})
        /\ tick_sleep' = IF tasks \ {task} = {} THEN TickSleep ELSE tick_sleep
        /\ sched_prev' = WritesPrev(r.writes)
        /\ sched_last' = WritesLast(r.writes)
        /\ UNCHANGED <<now, next_id, patches, dispatched, redispatched, calls>>

CaptureAndUpdate == \E task \in tasks, success \in BOOLEAN : capture_and_update(task, success)

(* ------------------------------------------------------------------ *)
(* restart of the process: stop() drains the executor, then a new      *)
(* CaptureScheduler is built and start() hydrates it                   *)
(* ------------------------------------------------------------------ *)

\* the rows _hydrate_from_database selects
HydrateSelected(db, t) ==
    {j \in DOMAIN db :
        /\ db[j].status \in {"active", "sleeping"}
        /\ db[j].start_datetime <= t
        /\ db[j].end_datetime = Null \/ db[j].end_datetime >= t}

RECURSIVE HydrateJobs(_, _, _)
HydrateJobs(st, ids, t) ==
    IF ids = <<>> \/ st.raised THEN st
    ELSE LET j == Head(ids)
             job == st.db[j]
             st1 == IF job.next_scheduled_capture_at # Null
                    THEN [st EXCEPT !.sc = Put(st.sc, j, job.next_scheduled_capture_at)]
                    ELSE CalculateAndSet(st, j, job, t)
         IN  HydrateJobs(st1, Tail(ids), t)

\* _hydrate_from_database of a new CaptureScheduler on the database db
Hydrated(db, t) ==
    HydrateJobs([db |-> db, sc |-> <<>>, writes |-> <<>>, raised |-> FALSE],
                IdSeq(HydrateSelected(db, t)), t)

hydrate_from_database(t) == Hydrated(jobs, t)

\* a start() whose hydration raises leaves no scheduler running
Restart ==
    LET r == hydrate_from_database(now)
    IN  /\ tasks = {}
        /\ ~r.raised
        /\ jobs' = r.db
        /\ scheduled_captures' = r.sc
        /\ failure_counts' = <<>>
        /\ captures_in_progress' = {}
        /\ marks' = [j \in DOMAIN marks |-> 0]
        /\ tick_sleep' = 0
        /\ sched_prev' = WritesPrev(r.writes)
        /\ sched_last' = WritesLast(r.writes)
        /\ UNCHANGED <<now, next_id, captures, tasks, patches, dispatched, redispatched, streak,
                       calls>>

Next ==
    \/ CreateJob
    \/ UpdateJob
    \/ DeleteJob
    \/ Advance
    \/ check_and_capture
    \/ CaptureAndUpdate
    \/ Restart

Spec == Init /\ [][Next]_vars

(* ------------------------------------------------------------------ *)
(* services/job_state.py: calculate_job_state called on one job row    *)
(* and one pending capture time, at several reference times            *)
(* ------------------------------------------------------------------ *)

CalcStarts == {T0 - 5, T0 + 25}
CalcEnds == {Null, T0 + 55}
CalcIntervals == {30, 90000}
CalcStatuses == {"active", "disabled"}
PendingTimes == {Null, T0 + 25, T0 + 85}
ReferenceTimes == {T0, T0 + 30, T0 + 90}

CalcJobs ==
    {job \in [start_datetime : CalcStarts, end_datetime : CalcEnds,
              interval_seconds : CalcIntervals, time_window_enabled : BOOLEAN,
              time_window_start : {Null, 481, 482},
              time_window_end : {Null, 480, 481},
              status : CalcStatuses] :
        /\ <<job.time_window_enabled, job.time_window_start, job.time_window_end>>
              \in Windows
        /\ job.end_datetime # Null =>
              job.end_datetime >= job.start_datetime + job.interval_seconds}

CalcInit ==
    /\ Idle
    /\ calls \in [job : CalcJobs, pending : PendingTimes, prev : {NoCall}, last : {NoCall}]

\* one call calculate_job_state(job, reference_time, pending_capture_time)
CalculateJobState ==
    \E reference_time \in ReferenceTimes :
        /\ calls' = [calls EXCEPT
                        !.prev = calls.last,
                        !.last = [reference_time |-> reference_time,
                                  result |-> calculate_job_state(calls.job, reference_time,
                                                                 calls.pending)]]
        /\ UNCHANGED svars

CalcNext == CalculateJobState

CalcSpec == CalcInit /\ [][CalcNext]_vars

(* ------------------------------------------------------------------ *)
(* Properties                                                          *)
(* ------------------------------------------------------------------ *)

TasksOf(j) == {x \in tasks : x.job_id = j}

\* C1: at most one capture task per job id is in flight; a job id is added to
\* the in-flight set only when it is absent (never twice without a discard in
\* between), and a task in flight runs for a job id that is in the set.
C1_OneCaptureInFlight ==
    \A j \in JobIds :
        /\ Cardinality(TasksOf(j)) <= 1
        /\ marks[j] <= 1
        /\ TasksOf(j) # {} => j \in captures_in_progress /\ marks[j] = 1

\* C1 witness: a capture task is in flight while a PATCH has been served
\* since the job was created, and a capture row exists already
C1_TaskInFlight ==
    \E j \in JobIds :
        /\ TasksOf(j) # {}
        /\ j \in captures_in_progress
        /\ patches > 0
        /\ \E i \in 1..Len(captures) : captures[i].job_id = j

\* C2: for each job J and scheduled instant s, at most one capture task is
\* dispatched and at most one capture row is inserted for (J, s).
C2_OneCapturePerScheduledInstant ==
    /\ redispatched = {}
    /\ \A a, b \in 1..Len(captures) :
          (/\ captures[a].job_id = captures[b].job_id
           /\ captures[a].scheduled_time = captures[b].scheduled_time) => a = b

\* start_datetime + N * interval_seconds for some N >= 1
OnGrid(job, t) ==
    /\ t >= job.start_datetime + job.interval_seconds
    /\ (t - job.start_datetime) % job.interval_seconds = 0

\* C3: every job whose persisted status is active has a non-null
\* next_scheduled_capture_at equal to start_datetime + N * interval_seconds
\* for some N >= 1.
C3_ActiveNextOnGrid ==
    \A j \in DOMAIN jobs :
        jobs[j].status = "active" =>
            /\ jobs[j].next_scheduled_capture_at # Null
            /\ OnGrid(jobs[j], jobs[j].next_scheduled_capture_at)

\* C4: for each job, each value the scheduler writes to
\* next_scheduled_capture_at is greater than the value it wrote before.
C4_SchedulerWritesIncrease ==
    \A j \in JobIds : sched_prev[j] # Null => sched_last[j] > sched_prev[j]

\* C5: a job with its time window enabled and status active or sleeping has
\* a stored next_scheduled_capture_at whose hour:minute is inside the window.
C5_NextInsideWindow ==
    \A j \in DOMAIN jobs :
        (jobs[j].time_window_enabled /\ jobs[j].status \in {"active", "sleeping"}) =>
            /\ jobs[j].next_scheduled_capture_at # Null
            /\ InWindowOf(jobs[j], jobs[j].next_scheduled_capture_at)

RECURSIVE GCD(_, _)
GCD(a, b) == IF b = 0 THEN a ELSE GCD(b, a % b)

\* the times of day of the grid slots repeat after this many slots
GridPeriod(job) == SecondsPerDay \div GCD(job.interval_seconds, SecondsPerDay)

\* the grid slots after t inside the window and not after end_datetime, over
\* one period of the grid
SlotsAfter(job, t) ==
    LET first == IF t < job.start_datetime THEN 0
                 ELSE (t - job.start_datetime) \div job.interval_seconds + 1
    IN  {s \in {job.start_datetime + n * job.interval_seconds :
                    n \in first .. first + GridPeriod(job)} :
            /\ ~job.time_window_enabled \/ InWindowOf(job, s)
            /\ job.end_datetime = Null \/ s <= job.end_datetime}

\* C6: when a scheduler step puts a job to sleep, the next_scheduled_capture_at
\* it stores is the earliest grid slot after now whose hour:minute is inside
\* the window.
C6_SleepUntilEarliestSlot ==
    [][\A j \in DOMAIN jobs \cap DOMAIN jobs' :
          (/\ patches' = patches
           /\ jobs[j].status # "sleeping"
           /\ jobs'[j].status = "sleeping") =>
              /\ SlotsAfter(jobs'[j], now) # {}
              /\ jobs'[j].next_scheduled_capture_at = Min(SlotsAfter(jobs'[j], now))]_vars

\* C7: a job whose persisted status is disabled has
\* next_scheduled_capture_at = null.
C7_DisabledHasNoNext ==
    \A j \in DOMAIN jobs :
        jobs[j].status = "disabled" => jobs[j].next_scheduled_capture_at = Null

\* C8: a job with status completed has next_scheduled_capture_at = null, and
\* either end_datetime <= now or no grid slot inside the window exists before
\* end_datetime.
C8_CompletedHasNoNext ==
    \A j \in DOMAIN jobs :
        jobs[j].status = "completed" =>
            /\ jobs[j].next_scheduled_capture_at = Null
            /\ \/ jobs[j].end_datetime # Null /\ jobs[j].end_datetime <= now
               \/ SlotsAfter(jobs[j], now) = {}

\* a PATCH of job j whose body sets status
PatchSetsStatus(j) ==
    \E upd \in PatchInputs : upd.status # "unset" /\ update_job(j, upd)

\* C9: a job whose status is completed or disabled keeps that status, and a
\* null next_scheduled_capture_at stays null, over every step that is not a
\* PATCH setting status.
C9_TerminalStatusKept ==
    [][\A j \in DOMAIN jobs \cap DOMAIN jobs' :
          (jobs[j].status \in {"completed", "disabled"} /\ ~PatchSetsStatus(j)) =>
              /\ jobs'[j].status = jobs[j].status
              /\ jobs[j].next_scheduled_capture_at = Null =>
                     jobs'[j].next_scheduled_capture_at = Null]_vars

\* start_datetime <= t and p > t - 2 * interval_seconds
InGraceWindow(job, t, p) ==
    /\ t # Null
    /\ p # Null
    /\ job.start_datetime <= t
    /\ p > t - 2 * job.interval_seconds

TwoCallsInGraceWindow ==
    /\ InGraceWindow(calls.job, calls.prev.reference_time, calls.pending)
    /\ InGraceWindow(calls.job, calls.last.reference_time, calls.pending)

\* no window, or both reference times and the pending capture inside it
AllInsideWindow ==
    calls.job.time_window_enabled =>
        \A t \in {calls.prev.reference_time, calls.last.reference_time, calls.pending} :
            js_is_time_in_window(TimeOf(t), parse_time_string(calls.job.time_window_start),
                                 parse_time_string(calls.job.time_window_end))

\* C10 as stated: two calls of calculate_job_state on the same job and pending
\* capture time p, at reference times inside the grace window, return the same
\* (status, next), with and without a time window.
C10_SameResultInGraceWindow ==
    TwoCallsInGraceWindow => calls.prev.result = calls.last.result

\* C10 amended: the two calls return the same (status, next) when the job has
\* no time window, or when both reference times and the pending capture time
\* have their hour:minute inside the window.
C10_SameResultInsideWindow ==
    (TwoCallsInGraceWindow /\ AllInsideWindow) => calls.prev.result = calls.last.result

\* C10 witness: two calls at different reference times inside the grace
\* window of a job with a window, all inside the window, returned the pending
\* capture
C10_TwoCallsInsideWindow ==
    /\ TwoCallsInGraceWindow
    /\ AllInsideWindow
    /\ calls.job.time_window_enabled
    /\ calls.job.status = "active"
    /\ calls.prev.reference_time # calls.last.reference_time
    /\ calls.last.result = <<"active", calls.pending>>

(* ------------------------------------------------------------------ *)
(* services/job_state.py: calculate_job_state on the jobs of the       *)
(* scenarios S1-S3 (day 0 is 2025-01-01)                               *)
(* ------------------------------------------------------------------ *)

At(day, hour, minute, second) ==
    day * SecondsPerDay + (hour * 60 + minute) * SecondsPerMinute + second

ScenarioStarts == {At(0, 7, 59, 30), At(0, 12, 0, 0), At(0, 21, 30, 0)}
ScenarioEnds == {Null, At(0, 12, 5, 0)}
ScenarioIntervals == {60, 600}
\* no window, 08:00-20:00 and 22:00-02:00
ScenarioWindows == {<<FALSE, Null, Null>>, <<TRUE, 480, 1200>>, <<TRUE, 1320, 120>>}
ScenarioPendings == {Null, At(0, 12, 1, 0)}
ScenarioTimes ==
    {At(0, 7, 59, 45), At(0, 8, 0, 15), At(0, 12, 0, 30), At(0, 12, 1, 30),
     At(0, 12, 3, 0), At(0, 12, 3, 30), At(0, 12, 4, 30), At(0, 12, 5, 0),
     At(1, 1, 50, 0), At(1, 2, 30, 0)}

ScenarioJobs ==
    {job \in [start_datetime : ScenarioStarts, end_datetime : ScenarioEnds,
              interval_seconds : ScenarioIntervals, time_window_enabled : BOOLEAN,
              time_window_start : {Null, 480, 1320},
              time_window_end : {Null, 1200, 120},
              status : CalcStatuses] :
        /\ <<job.time_window_enabled, job.time_window_start, job.time_window_end>>
              \in ScenarioWindows
        /\ job.end_datetime # Null =>
              job.end_datetime >= job.start_datetime + job.interval_seconds}

ScenarioInit ==
    /\ Idle
    /\ calls \in [job : ScenarioJobs, pending : ScenarioPendings,
                  prev : {NoCall}, last : {NoCall}]

\* one call calculate_job_state(job, reference_time, pending_capture_time)
CalculateScenario ==
    \E reference_time \in ScenarioTimes :
        /\ calls' = [calls EXCEPT
                        !.prev = calls.last,
                        !.last = [reference_time |-> reference_time,
                                  result |-> calculate_job_state(calls.job, reference_time,
                                                                 calls.pending)]]
        /\ UNCHANGED svars

ScenarioNext == CalculateScenario

ScenarioSpec == ScenarioInit /\ [][ScenarioNext]_vars

\* the smallest start_datetime + k * interval_seconds, k >= 1, after t
FirstSlotAfter(job, t) ==
    LET slots == {job.start_datetime + k * job.interval_seconds :
                     k \in 1 .. ((t - job.start_datetime) \div job.interval_seconds + 1)}
    IN  Min({n \in slots : n > t})

\* the last call was made on a job that is not disabled and has no window, at
\* a reference time >= start_datetime
CalledWithoutWindow ==
    /\ calls.last # NoCall
    /\ calls.job.status # "disabled"
    /\ ~calls.job.time_window_enabled
    /\ calls.last.reference_time >= calls.job.start_datetime

GraceExpired ==
    calls.pending <= calls.last.reference_time - 2 * calls.job.interval_seconds

\* C11 as stated: for a job without window and a reference time >=
\* start_datetime, the pending capture p is returned as (active, p) exactly
\* when p > ref_time - 2 * interval_seconds; otherwise the result is the first
\* grid slot after ref_time.
C11_PendingKeptInGracePeriod ==
    (CalledWithoutWindow /\ calls.pending # Null) =>
        /\ calls.last.result = <<"active", calls.pending>> <=> ~GraceExpired
        /\ GraceExpired =>
              calls.last.result =
                  <<"active", FirstSlotAfter(calls.job, calls.last.reference_time)>>

\* C11 amended: as above, but once the grace period has expired the first grid
\* slot after ref_time is returned only if it is not after end_datetime;
\* otherwise the result is (completed, null).
C11_PendingKeptOrSlotBeforeEnd ==
    (CalledWithoutWindow /\ calls.pending # Null) =>
        LET n == FirstSlotAfter(calls.job, calls.last.reference_time)
        IN  /\ calls.last.result = <<"active", calls.pending>> <=> ~GraceExpired
            /\ GraceExpired =>
                  calls.last.result =
                      IF calls.job.end_datetime = Null \/ n <= calls.job.end_datetime
                      THEN <<"active", n>> ELSE <<"completed", Null>>

\* C11 witness: interval 60, pending 12:01:00: the call at 12:01:30 returned
\* the pending capture and the call at 12:03:30 returned 12:04:00
C11_GraceExample ==
    /\ CalledWithoutWindow
    /\ calls.job.start_datetime = At(0, 12, 0, 0)
    /\ calls.job.interval_seconds = 60
    /\ calls.pending = At(0, 12, 1, 0)
    /\ calls.prev = [reference_time |-> At(0, 12, 1, 30),
                     result |-> <<"active", At(0, 12, 1, 0)>>]
    /\ calls.last = [reference_time |-> At(0, 12, 3, 30),
                     result |-> <<"active", At(0, 12, 4, 0)>>]

ScenarioS2 ==
    /\ calls.job = [start_datetime |-> At(0, 7, 59, 30), end_datetime |-> Null,
                    interval_seconds |-> 60, time_window_enabled |-> TRUE,
                    time_window_start |-> 480, time_window_end |-> 1200,
                    status |-> "active"]
    /\ calls.pending = Null

\* C13 as stated (S2): at 07:59:45 the result is (sleeping, 08:00:00) and at
\* 08:00:15 it is (active, 08:00:30).
C13_S2_SleepsUntilWindowOpens ==
    ScenarioS2 =>
        /\ calls.last.reference_time = At(0, 7, 59, 45) =>
               calls.last.result = <<"sleeping", At(0, 8, 0, 0)>>
        /\ calls.last.reference_time = At(0, 8, 0, 15) =>
               calls.last.result = <<"active", At(0, 8, 0, 30)>>

\* C13 amended (S2): at 07:59:45 the result is (sleeping, 08:00:30), the first
\* grid slot inside the window, and at 08:00:15 it is (active, 08:00:30).
C13_S2_SleepsUntilFirstSlot ==
    ScenarioS2 =>
        /\ calls.last.reference_time = At(0, 7, 59, 45) =>
               calls.last.result = <<"sleeping", At(0, 8, 0, 30)>>
        /\ calls.last.reference_time = At(0, 8, 0, 15) =>
               calls.last.result = <<"active", At(0, 8, 0, 30)>>

\* C13 witness: the S2 job was evaluated at 07:59:45 and then at 08:00:15
C13_S2_BothCalls ==
    /\ ScenarioS2
    /\ calls.prev.reference_time = At(0, 7, 59, 45)
    /\ calls.prev.result[1] = "sleeping"
    /\ calls.last.reference_time = At(0, 8, 0, 15)
    /\ calls.last.result[1] = "active"

\* C14 (S3): for the job with window 22:00-02:00, start day 0 21:30:00,
\* interval 600 and pending = null, the result at day 1 01:50:00 is
\* (active, day 1 02:00:00) and at day 1 02:30:00 it is
\* (sleeping, day 1 22:00:00); for every job with a window crossing midnight
\* and a reference time outside it, a sleeping result is after the reference
\* time.
C14_S3_SleepingSlotInFuture ==
    /\ (/\ calls.job = [start_datetime |-> At(0, 21, 30, 0), end_datetime |-> Null,
                        interval_seconds |-> 600, time_window_enabled |-> TRUE,
                        time_window_start |-> 1320, time_window_end |-> 120,
                        status |-> "active"]
        /\ calls.pending = Null) =>
           /\ calls.last.reference_time = At(1, 1, 50, 0) =>
                  calls.last.result = <<"active", At(1, 2, 0, 0)>>
           /\ calls.last.reference_time = At(1, 2, 30, 0) =>
                  calls.last.result = <<"sleeping", At(1, 22, 0, 0)>>
    /\ (/\ calls.last # NoCall
        /\ calls.job.time_window_enabled
        /\ calls.job.time_window_start > calls.job.time_window_end
        /\ ~js_is_time_in_window(TimeOf(calls.last.reference_time),
                                 parse_time_string(calls.job.time_window_start),
                                 parse_time_string(calls.job.time_window_end))
        /\ calls.last.result[1] = "sleeping") =>
           calls.last.result[2] > calls.last.reference_time

(* ------------------------------------------------------------------ *)
(* is_time_in_window of services/time_window.py and of                 *)
(* services/job_state.py, called on the same input                     *)
(* ------------------------------------------------------------------ *)

\* "HH:MM" window bounds: 00:00, 08:00, 08:01, 20:00, 22:00, 23:59
WindowTimes == {0, 480, 481, 1200, 1320, 1439}
\* times of day with seconds, around the window bounds
CheckTimes ==
    {0, 59, 60, 8 * 3600 - 1, 8 * 3600, 8 * 3600 + 59, 8 * 3600 + 60,
     8 * 3600 + 119, 8 * 3600 + 120, 20 * 3600 - 1, 20 * 3600 + 59,
     20 * 3600 + 60, 22 * 3600 - 1, 22 * 3600, SecondsPerDay - 60,
     SecondsPerDay - 1}

NoWindowCall == [check_time |-> Null, start |-> Null, end |-> Null,
                 tw |-> FALSE, js |-> FALSE]

WindowInit == Idle /\ calls = NoWindowCall

\* both implementations evaluated on one time of day and one window
IsTimeInWindow ==
    \E check_time \in CheckTimes, start \in WindowTimes, end \in WindowTimes :
        /\ calls' = [check_time |-> check_time, start |-> start, end |-> end,
                     tw |-> tw_is_time_in_window(check_time, parse_time_string(start),
                                                 parse_time_string(end)),
                     js |-> js_is_time_in_window(check_time, parse_time_string(start),
                                                 parse_time_string(end))]
        /\ UNCHANGED svars

WindowNext == IsTimeInWindow

WindowSpec == WindowInit /\ [][WindowNext]_vars

TaskFinishes(j) ==
    /\ \E task \in tasks : task.job_id = j /\ task \notin tasks'
    /\ j \in DOMAIN jobs'

\* the task that finishes has inserted a capture row and cleared the warning
\* and the counter
SuccessResets(j) ==
    /\ Len(captures') = Len(captures) + 1
    /\ captures'[Len(captures')].job_id = j
    /\ jobs'[j].warning_message = Null
    /\ failure_counts'[j] = 0

C18_RescheduledAfterCapture ==
    [][\A j \in JobIds :
          (TaskFinishes(j) /\ jobs'[j].status = "active") =>
              \A task \in tasks \ tasks' :
                  LET n == jobs'[j].next_scheduled_capture_at
                  IN  /\ n # Null
                      /\ n > task.capture_time
                      /\ OnGrid(jobs'[j], n)
                      /\ Get(scheduled_captures', j, Null) = n]_vars

\* C19: a job id is in captures_in_progress only while a capture task of that
\* job is submitted and not yet finished: every task that finishes, on any
\* path, has removed its job id, so no id stays in the set for ever.
C19_InFlightIdsHaveTasks ==
    \A j \in captures_in_progress : TasksOf(j) # {}

(* ------------------------------------------------------------------ *)
(* _execute_captures_parallel with more due jobs than worker threads   *)
(* ------------------------------------------------------------------ *)

MaxDue == 7
DueJobs == 1 .. MaxDue

\* the tick submits one task per due job and waits for all of them
SubmitCaptures ==
    /\ tasks = {}
    /\ \E batch \in SUBSET DueJobs :
          /\ batch # {}
          /\ captures_in_progress' = batch
          /\ tasks' = StartWorkers({[job_id |-> j, running |-> FALSE] : j \in batch})
    /\ UNCHANGED <<now, jobs, next_id, captures, scheduled_captures, failure_counts,
                   tick_sleep, patches, marks, dispatched, redispatched, streak,
                   sched_prev, sched_last, calls>>

\* a running task finishes; its thread takes the next task of the queue
FinishCapture ==
    /\ \E task \in Executing(tasks) :
          /\ tasks' = StartWorkers(tasks \ {task})
          /\ captures_in_progress' = captures_in_progress \ {task.job_id}
    /\ UNCHANGED <<now, jobs, next_id, captures, scheduled_captures, failure_counts,
                   tick_sleep, patches, marks, dispatched, redispatched, streak,
                   sched_prev, sched_last, calls>>

PoolNext == SubmitCaptures \/ FinishCapture

PoolSpec == Init /\ [][PoolNext]_vars

\* C20: at most max_workers = 5 capture tasks are executing at any time,
\* however many jobs are due in one tick; the other submitted tasks wait, and
\* they wait only while all 5 workers are busy.
C20_AtMostFiveExecuting ==
    /\ Cardinality(Executing(tasks)) <= max_workers
    /\ tasks # Executing(tasks) => Cardinality(Executing(tasks)) = max_workers

\* C20 witness: more than 5 jobs were due; 5 tasks execute and the others wait
C20_TasksWaiting ==
    /\ Cardinality(tasks) > max_workers
    /\ Cardinality(Executing(tasks)) = max_workers
    /\ tasks # Executing(tasks)

(* ------------------------------------------------------------------ *)
(* the scheduler with two jobs: job 1 was created at T0 and is in the  *)
(* schedule; job 2 has just been created, after the tick at PairTime   *)
(* ------------------------------------------------------------------ *)

PairTime == T0 + 3 * TickSleep
PairIds == {1, 2}
FirstJob == JobConfig(T0 - 5, Null, 40, <<FALSE, Null, Null>>)

\* the requests POST /api/jobs accepts at PairTime
SecondJobs ==
    {cfg \in {JobConfig(sd, ed, iv, w) :
                 sd \in StartTimes, ed \in EndTimes, iv \in Intervals, w \in Windows} :
        /\ cfg.interval_seconds >= MinInterval
        /\ cfg.end_datetime # Null =>
              /\ cfg.end_datetime > cfg.start_datetime
              /\ cfg.end_datetime >= cfg.start_datetime + cfg.interval_seconds
              /\ cfg.end_datetime >= PairTime
        /\ calculate_next_scheduled_capture(cfg, PairTime) # Null}

PairInit ==
    /\ now = PairTime
    /\ \E cfg \in SecondJobs :
          jobs = [j \in PairIds |-> IF j = 1 THEN CreatedRow(FirstJob, T0)
                                    ELSE CreatedRow(cfg, PairTime)]
    /\ next_id = 3
    /\ captures = <<>>
    /\ scheduled_captures = [j \in {1} |-> calculate_next_scheduled_capture(FirstJob, T0)]
    /\ failure_counts = <<>>
    /\ captures_in_progress = {}
    /\ tasks = {}
    /\ tick_sleep = TickSleep
    /\ patches = 0
    /\ marks = [j \in PairIds |-> 0]
    /\ dispatched = {}
    /\ redispatched = {}
    /\ streak = <<>>
    /\ sched_prev = [j \in PairIds |-> Null]
    /\ sched_last = [j \in PairIds |-> Null]
    /\ calls = NoCalls

PairNext == check_and_capture \/ CaptureAndUpdate \/ Advance

PairSpec == PairInit /\ [][PairNext]_vars

\* this step is a tick (one call of _check_and_capture)
TickStep ==
    /\ tasks = {}
    /\ tick_sleep = 0
    /\ tasks' # {} \/ tick_sleep' = TickSleep

\* after the tick job j is due: it is active, its scheduled time has arrived
\* and lies inside its window
DueAfterTick(j) ==
    /\ j \in DOMAIN jobs'
    /\ jobs'[j].status = "active"
    /\ jobs'[j].end_datetime = Null \/ jobs'[j].end_datetime >= now
    /\ j \in DOMAIN scheduled_captures'
    /\ Due(jobs'[j], scheduled_captures'[j], now)

\* C21: the loop runs a tick every 10 s whatever happened in the ticks before,
\* and a tick that raises no exception dispatches every job that is due,
\* also when an earlier tick has raised one.
C21_TicksDispatchAfterFailedTick ==
    [][(TickStep /\ ~TickResult(now).raised) =>
          \A j \in DOMAIN jobs' :
              DueAfterTick(j) => \E task \in tasks' : task.job_id = j]_vars

(* ------------------------------------------------------------------ *)
(* the scheduler started on a database left by an earlier run: job 1   *)
(* was created at T0, the process was stopped and is started again     *)
(* ------------------------------------------------------------------ *)

StartupTimes == {T0 + TickSleep, T0 + 6 * TickSleep}
StartupIntervals == {20, 40}

StartupJobs ==
    {cfg \in {JobConfig(sd, ed, iv, w) :
                 sd \in StartTimes, ed \in EndTimes, iv \in StartupIntervals,
                 w \in Windows} :
        /\ cfg.end_datetime # Null =>
              /\ cfg.end_datetime > cfg.start_datetime
              /\ cfg.end_datetime >= cfg.start_datetime + cfg.interval_seconds
              /\ cfg.end_datetime >= T0
        /\ calculate_next_scheduled_capture(cfg, T0) # Null}

\* the state start() leaves at time t on the row of cfg
Started(cfg, t) ==
    /\ now = t
    /\ ~Hydrated([j \in {1} |-> CreatedRow(cfg, T0)], t).raised
    /\ jobs = Hydrated([j \in {1} |-> CreatedRow(cfg, T0)], t).db
    /\ scheduled_captures = Hydrated([j \in {1} |-> CreatedRow(cfg, T0)], t).sc
    /\ next_id = 2
    /\ captures = <<>>
    /\ failure_counts = <<>>
    /\ captures_in_progress = {}
    /\ tasks = {}
    /\ tick_sleep = 0
    /\ patches = 0
    /\ marks = [j \in JobIds |-> 0]
    /\ dispatched = {}
    /\ redispatched = {}
    /\ streak = <<>>
    /\ sched_prev = [j \in JobIds |-> Null]
    /\ sched_last = [j \in JobIds |-> Null]
    /\ calls = NoCalls

StartupInit == \E cfg \in StartupJobs, t \in StartupTimes : Started(cfg, t)

StartupNext == check_and_capture \/ CaptureAndUpdate \/ Advance

StartupSpec == StartupInit /\ [][StartupNext]_vars

\* C22: after a restart no capture is dispatched for a scheduled instant that
\* is 2 intervals or more before the tick: a persisted
\* next_scheduled_capture_at that old is replaced by a later grid slot before
\* anything is captured.
C22_NoStaleDispatchAfterRestart ==
    \A task \in tasks :
        task.scheduled_time > task.capture_time - 2 * task.job.interval_seconds

\* before this tick job j is active with a pending capture that is not after
\* end_datetime and not older than the grace period, and end_datetime has passed
PendingAtEnd(j) ==
    /\ j \in DOMAIN jobs
    /\ jobs[j].status = "active"
    /\ jobs[j].end_datetime # Null
    /\ jobs[j].end_datetime < now
    /\ j \in DOMAIN scheduled_captures
    /\ scheduled_captures[j] # Null
    /\ scheduled_captures[j] = jobs[j].next_scheduled_capture_at
    /\ scheduled_captures[j] <= jobs[j].end_datetime
    /\ scheduled_captures[j] > now - 2 * jobs[j].interval_seconds
    /\ jobs[j].time_window_enabled => InWindowOf(jobs[j], scheduled_captures[j])
    /\ j \notin captures_in_progress

\* C23: a pending capture that is not after end_datetime is still dispatched
\* by the first tick at or after its instant when that tick comes after
\* end_datetime; the tick does not mark the job completed before the capture.
C23_PendingCaptureAtEndDispatched ==
    [][\A j \in JobIds :
          (TickStep /\ PendingAtEnd(j)) =>
              /\ \E task \in tasks' :
                    task.job_id = j /\ task.scheduled_time = scheduled_captures[j]
              /\ jobs'[j].status # "completed"]_vars

\* C24: no capture is dispatched for a scheduled time before start_datetime,
\* after end_datetime or, for a job with a window, with an hour:minute outside
\* the window.
C24_DispatchedInsideSchedule ==
    \A task \in tasks :
        /\ task.scheduled_time >= task.job.start_datetime
        /\ task.job.end_datetime # Null => task.scheduled_time <= task.job.end_datetime
        /\ task.job.time_window_enabled => InWindowOf(task.job, task.scheduled_time)

(* ------------------------------------------------------------------ *)
(* routers/jobs.py: the requests that change a job's schedule, served  *)
(* at T0                                                               *)
(* ------------------------------------------------------------------ *)

SchedulePatches ==
    { [NoUpdate EXCEPT !.status = "disabled"],
      [NoUpdate EXCEPT !.status = "active"],
      [NoUpdate EXCEPT !.interval_seconds = 30],
      [NoUpdate EXCEPT !.interval_seconds = 90],
      [NoUpdate EXCEPT !.start_datetime = T0 + 25],
      [NoUpdate EXCEPT !.start_datetime = T0 + 60],
      [NoUpdate EXCEPT !.end_set = TRUE, !.end_datetime = T0 + 45],
      [NoUpdate EXCEPT !.end_set = TRUE, !.end_datetime = T0 + 130],
      [NoUpdate EXCEPT !.end_set = TRUE] }

\* the row after the INSERT of create_job (status DEFAULT 'active')
InsertedRow(cfg) ==
    [start_datetime |-> cfg.start_datetime, end_datetime |-> cfg.end_datetime,
     interval_seconds |-> cfg.interval_seconds,
     time_window_enabled |-> cfg.time_window_enabled,
     time_window_start |-> cfg.time_window_start,
     time_window_end |-> cfg.time_window_end,
     status |-> "active", next_scheduled_capture_at |-> Null,
     warning_message |-> Null]

\* get_db when its block raises: conn.rollback()
Rollback(before, after) == before

\* C28 mutant: the inserted row is committed
create_job_no_directory_RowKept(db, id, cfg) == Put(db, id, InsertedRow(cfg))

\* create_job when os.makedirs raises: INSERT, DELETE of the new id, and the
\* HTTPException leaves the block of get_db
create_job_no_directory(db, id, cfg) ==
    Rollback(db, Pop(Put(db, id, InsertedRow(cfg)), id))

\* POST /api/jobs answered 400 because the job directory cannot be created
CreateJobNoDirectory ==
    \E sd \in StartTimes, ed \in EndTimes, iv \in Intervals, w \in Windows :
        /\ JobCreateValid(JobConfig(sd, ed, iv, w))
        /\ jobs' = create_job_no_directory(jobs, next_id, JobConfig(sd, ed, iv, w))
        /\ calls' = [request |-> JobConfig(sd, ed, iv, w), status_code |-> 400]
        /\ UNCHANGED <<now, next_id, captures, scheduled_captures, failure_counts,
                       captures_in_progress, tasks, tick_sleep, patches, marks,
                       dispatched, redispatched, streak, sched_prev, sched_last>>

PatchSchedule == \E j \in JobIds, upd \in SchedulePatches : update_job(j, upd)

ApiNext == CreateJob \/ CreateJobNoDirectory \/ PatchSchedule \/ DeleteJob

ApiSpec == Init /\ [][ApiNext]_vars

\* C26: every job row with end_datetime set has end_datetime > start_datetime
\* and end_datetime >= start_datetime + interval_seconds, after create and
\* after every accepted PATCH.
C26_EndAfterStartPlusInterval ==
    \A j \in DOMAIN jobs :
        jobs[j].end_datetime # Null =>
            /\ jobs[j].end_datetime > jobs[j].start_datetime
            /\ jobs[j].end_datetime >= jobs[j].start_datetime + jobs[j].interval_seconds

\* C27: every capture row references an existing job: DELETE of a job leaves
\* no capture row of that job, and none is inserted afterwards.
C27_CapturesReferenceJobs ==
    \A i \in 1 .. Len(captures) : captures[i].job_id \in DOMAIN jobs

\* C28: a POST /api/jobs that fails to create the job directory is answered
\* with an error and leaves the job rows as they were before the request.
C28_FailedCreateLeavesNoRow ==
    [][(calls' # calls /\ calls'.status_code = 400) => jobs' = jobs]_vars

\* C28 witness: a request was answered 400 while a job row existed
C28_CreateAnswered400 ==
    /\ calls # NoCalls
    /\ calls.status_code = 400
    /\ jobs # <<>>

(* ------------------------------------------------------------------ *)
(* services/url_tester.py: test_stream_url                             *)
(* ------------------------------------------------------------------ *)

\* what subprocess.run(ffmpeg ...) does: it returns 0 and has written the
\* frame, returns 0 without a file, returns non-zero, raises TimeoutExpired,
\* or raises another exception (e.g. ffmpeg is not installed)
GrabberOutcomes == {"frame", "no_file", "exit_nonzero", "timeout", "exception"}
StreamTypes == {"unset", "http", "rtsp"}
UrlSchemes == {"http://", "rtsp://"}

\* the stream type used for the command line
DetectedType(stream_type, scheme) ==
    IF stream_type = "unset"
    THEN (IF scheme = "rtsp://" THEN "rtsp" ELSE "http")
    ELSE stream_type

\* the response and whether the file of NamedTemporaryFile(delete=False) is
\* still on disk when the function returns
test_stream_url(scheme, stream_type, outcome) ==
    LET created == TRUE
        exists == IF outcome = "no_file" THEN FALSE ELSE created
    IN  IF outcome = "timeout" \/ outcome = "exception"
        THEN [command |-> DetectedType(stream_type, scheme), success |-> FALSE,
              temp_file |-> exists]
        ELSE IF outcome = "frame"
        THEN \* os.remove(output_path) after the image is read
             [command |-> DetectedType(stream_type, scheme), success |-> TRUE,
              temp_file |-> FALSE]
        ELSE \* if os.path.exists(output_path): os.remove(output_path)
             [command |-> DetectedType(stream_type, scheme), success |-> FALSE,
              temp_file |-> FALSE]

NoProbe == [outcome |-> "none", response |-> Null]

ProbeInit == Idle /\ calls = [prev |-> NoProbe, last |-> NoProbe]

TestStreamUrl ==
    \E scheme \in UrlSchemes, stream_type \in StreamTypes, outcome \in GrabberOutcomes :
        /\ calls' = [prev |-> calls.last,
                     last |-> [outcome |-> outcome,
                               response |-> test_stream_url(scheme, stream_type, outcome)]]
        /\ UNCHANGED svars

ProbeNext == TestStreamUrl

ProbeSpec == ProbeInit /\ [][ProbeNext]_vars

\* C29: whichever way test_stream_url returns (success, non-zero exit of the
\* grabber, timeout, any other exception), the temporary file of the probe no
\* longer exists.
C29_TempFileRemoved ==
    calls.last # NoProbe => ~calls.last.response.temp_file

\* C30: a job whose status is sleeping, completed or disabled has a null
\* warning_message: the transition clears it and a capture that finishes
\* later does not set it.
C30_NoWarningUnlessActive ==
    \A j \in DOMAIN jobs :
        jobs[j].status \in {"sleeping", "completed", "disabled"} =>
            jobs[j].warning_message = Null

(* ------------------------------------------------------------------ *)
(* the tick outside the window                                         *)
(* ------------------------------------------------------------------ *)

\* before this tick job j is active, has a window, is read by the tick, and
\* the time of the tick is outside the window; the scheduler's pending capture
\* is the persisted one
ActiveOutsideWindow(j) ==
    /\ j \in DOMAIN jobs
    /\ jobs[j].status = "active"
    /\ jobs[j].time_window_enabled
    /\ jobs[j].start_datetime <= now
    /\ jobs[j].end_datetime = Null \/ jobs[j].end_datetime >= now
    /\ ~InWindowOf(jobs[j], now)
    /\ Get(scheduled_captures, j, Null) = jobs[j].next_scheduled_capture_at

\* the pending capture is a boundary capture: inside the window, due, and
\* within the grace period
BoundaryCapture(j) ==
    LET pending == jobs[j].next_scheduled_capture_at
    IN  /\ pending # Null
        /\ InWindowOf(jobs[j], pending)
        /\ pending <= now
        /\ pending > now - 2 * jobs[j].interval_seconds

\* C25: a tick outside the window leaves an active job with a window active
\* only for a boundary capture; in every other case the tick sets its status
\* to sleeping.
C25_SleepsUnlessBoundaryCapture ==
    [][\A j \in JobIds :
          (TickStep /\ ~TickResult(now).raised /\ ActiveOutsideWindow(j)) =>
              jobs'[j].status = IF BoundaryCapture(j) THEN "active" ELSE "sleeping"]_vars

(* ------------------------------------------------------------------ *)
(* the scheduler running while the schedule of a job is PATCHed         *)
(* ------------------------------------------------------------------ *)

RescheduleNext ==
    \/ CreateJob
    \/ PatchSchedule
    \/ Advance
    \/ check_and_capture
    \/ CaptureAndUpdate

RescheduleSpec == Init /\ [][RescheduleNext]_vars

(* ------------------------------------------------------------------ *)
(* the loop thread and its capture tasks                                *)
(* ------------------------------------------------------------------ *)

\* C31: the loop thread does not wait for the capture tasks it submits: the
\* tick that submits captures goes on to the 10 s sleep of _run_loop.
C31_TickDoesNotWaitForCaptures ==
    [][(TickStep /\ tasks' # {}) => tick_sleep' = TickSleep]_vars

(* ------------------------------------------------------------------ *)
(* services/capture_scheduler.py: the statements of the loop thread    *)
(* and of the worker threads that touch scheduled_captures and          *)
(* captures_in_progress, and self._lock                                 *)
(* ------------------------------------------------------------------ *)

\* jobs read by one tick
LockJobs == 1 .. 2
LoopThread == 0
NoThread == -1

Statement(op, object, line) == [op |-> op, object |-> object, line |-> line]

\* what one tick does for one job, by the branches taken
TickPaths ==
    { \* the job is in the schedule and not due
      <<Statement("read", "scheduled_captures", 255),
        Statement("read", "scheduled_captures", 274)>>,
      \* the job is not in the schedule: _calculate_and_set_next_capture
      <<Statement("read", "scheduled_captures", 255),
        Statement("write", "scheduled_captures", 110),
        Statement("read", "scheduled_captures", 274)>>,
      \* the job is due and is taken into the batch
      <<Statement("read", "scheduled_captures", 255),
        Statement("read", "scheduled_captures", 274),
        Statement("acquire", "_lock", 292),
        Statement("read", "captures_in_progress", 293),
        Statement("write", "captures_in_progress", 295),
        Statement("release", "_lock", 295)>>,
      \* outside the window: the job goes to sleep
      <<Statement("read", "scheduled_captures", 169),
        Statement("write", "scheduled_captures", 210)>>,
      \* a sleeping job wakes up
      <<Statement("write", "scheduled_captures", 239),
        Statement("read", "scheduled_captures", 255),
        Statement("read", "scheduled_captures", 274)>> }

\* the finally block of _capture_and_update, by the status read from the row
WorkerPaths ==
    { <<Statement("write", "scheduled_captures", 110),
        Statement("acquire", "_lock", 387),
        Statement("write", "captures_in_progress", 388),
        Statement("release", "_lock", 388)>>,
      <<Statement("acquire", "_lock", 387),
        Statement("write", "captures_in_progress", 388),
        Statement("release", "_lock", 388)>> }

NoAccess == [thread |-> NoThread, statement |-> Statement("none", "none", 0), locked |-> TRUE]

\* threading.Lock: acquire waits until the lock is free
CanExecute(lock, stmt) == stmt.op = "acquire" => lock = NoThread

LockAfter(lock, thread, stmt) ==
    IF stmt.op = "acquire" THEN thread
    ELSE IF stmt.op = "release" THEN NoThread
    ELSE lock

\* the last read or write of one of the two shared objects, and whether the
\* thread held the lock
AccessAfter(access, lock, thread, stmt) ==
    IF stmt.op \in {"read", "write"}
    THEN [thread |-> thread, statement |-> stmt, locked |-> lock = thread]
    ELSE access

LockInit ==
    /\ Idle
    /\ \E path \in TickPaths :
           calls = [tick |-> [job |-> 1, path |-> path, pc |-> 1],
                    workers |-> <<>>, lock |-> NoThread, access |-> NoAccess]

\* the loop thread executes its next statement for the current job
RunTick ==
    /\ calls.tick.job \in LockJobs
    /\ LET t == calls.tick
           stmt == t.path[t.pc]
       IN  /\ CanExecute(calls.lock, stmt)
           /\ \E next \in TickPaths, task \in WorkerPaths :
                  calls' = [tick |-> IF t.pc < Len(t.path) THEN [t EXCEPT !.pc = @ + 1]
                                     ELSE [job |-> t.job + 1, path |-> next, pc |-> 1],
                            workers |-> IF stmt.line = 295 /\ stmt.op = "write"
                                        THEN Put(calls.workers, t.job, [path |-> task, pc |-> 1])
                                        ELSE calls.workers,
                            lock |-> LockAfter(calls.lock, LoopThread, stmt),
                            access |-> AccessAfter(calls.access, calls.lock, LoopThread, stmt)]
    /\ UNCHANGED svars

\* a worker thread of the batch executes its next statement, while the loop
\* thread waits in as_completed
RunWorker ==
    /\ calls.tick.job \notin LockJobs
    /\ \E j \in DOMAIN calls.workers :
           LET w == calls.workers[j]
           IN  /\ w.pc <= Len(w.path)
               /\ CanExecute(calls.lock, w.path[w.pc])
               /\ calls' = [calls EXCEPT
                               !.workers[j].pc = @ + 1,
                               !.lock = LockAfter(calls.lock, j, w.path[w.pc]),
                               !.access = AccessAfter(calls.access, calls.lock, j, w.path[w.pc])]
    /\ UNCHANGED svars

\* every capture of the batch is done: the tick returns, and the next one begins
NextTick ==
    /\ calls.tick.job \notin LockJobs
    /\ \A j \in DOMAIN calls.workers : calls.workers[j].pc > Len(calls.workers[j].path)
    /\ \E path \in TickPaths :
           calls' = [calls EXCEPT !.tick = [job |-> 1, path |-> path, pc |-> 1],
                                  !.workers = <<>>]
    /\ UNCHANGED svars

LockNext == RunTick \/ RunWorker \/ NextTick

LockSpec == LockInit /\ [][LockNext]_vars

\* C32: every read and every write of scheduled_captures and of
\* captures_in_progress, by the loop thread and by the worker threads, is made
\* by a thread that holds self._lock.
C32_SharedStateAccessedUnderLock ==
    calls.access.locked

(* ------------------------------------------------------------------ *)
(* services/capture_scheduler.py: stop() against the loop thread and   *)
(* the executor                                                         *)
(* ------------------------------------------------------------------ *)

\* C33 mutant: shutdown cancels the futures that have not started
executor_shutdown_CancelFutures(queued) == 0

\* ThreadPoolExecutor.shutdown(wait=True, cancel_futures=False): the futures
\* still waiting in the work queue after the call
executor_shutdown(queued) == queued

\* the state start() leaves: the loop thread is at the test of its while loop
StopInit ==
    /\ Idle
    /\ calls = [running |-> TRUE, loop |-> "while", todo |-> 0, queued |-> 0, active |-> 0,
                stopper |-> "none", shutdown |-> FALSE,
                cancelled |-> FALSE, late_tick |-> FALSE, late_start |-> FALSE]

\* while self.running: the loop thread begins a tick or leaves the loop
LoopTest ==
    /\ calls.loop = "while"
    /\ calls' = IF calls.running
                THEN [calls EXCEPT !.loop = "tick", !.late_tick = @ \/ calls.stopper # "none"]
                ELSE [calls EXCEPT !.loop = "exited"]
    /\ UNCHANGED svars

\* _check_and_capture up to the batch of due jobs
CollectDue ==
    /\ calls.loop = "tick"
    /\ \E n \in 0 .. MaxDue :
           calls' = IF n = 0 THEN [calls EXCEPT !.loop = "sleep"]
                    ELSE [calls EXCEPT !.loop = "submit", !.todo = n]
    /\ UNCHANGED svars

\* self.executor.submit for the next job of the batch; after shutdown it
\* raises RuntimeError, which ends the tick in the except clause of _run_loop
SubmitOne ==
    /\ calls.loop = "submit"
    /\ calls' = IF calls.shutdown THEN [calls EXCEPT !.loop = "sleep", !.todo = 0]
                ELSE [calls EXCEPT !.todo = @ - 1, !.queued = @ + 1,
                                   !.loop = IF calls.todo = 1 THEN "as_completed" ELSE "submit"]
    /\ UNCHANGED svars

\* a worker thread takes a future from the work queue
WorkerStart ==
    /\ calls.queued > 0
    /\ calls.active < max_workers
    /\ calls' = [calls EXCEPT !.queued = @ - 1, !.active = @ + 1,
                              !.late_start = @ \/ calls.stopper = "returned"]
    /\ UNCHANGED svars

\* _capture_and_update returns
WorkerFinish ==
    /\ calls.active > 0
    /\ calls' = [calls EXCEPT !.active = @ - 1]
    /\ UNCHANGED svars

\* as_completed has yielded every future of the batch
BatchDone ==
    /\ calls.loop = "as_completed"
    /\ calls.queued = 0
    /\ calls.active = 0
    /\ calls' = [calls EXCEPT !.loop = "sleep"]
    /\ UNCHANGED svars

\* time.sleep(10) returns
SleepOver ==
    /\ calls.loop = "sleep"
    /\ calls' = [calls EXCEPT !.loop = "while"]
    /\ UNCHANGED svars

\* stop(): self.running = False
StopCalled ==
    /\ calls.stopper = "none"
    /\ calls' = [calls EXCEPT !.running = FALSE, !.stopper = "join"]
    /\ UNCHANGED svars

\* self.thread.join(timeout=5) returns, because the loop thread has ended or
\* because of the timeout; then self.executor.shutdown(...) is called
JoinReturns ==
    /\ calls.stopper = "join"
    /\ calls' = [calls EXCEPT !.stopper = "shutdown", !.shutdown = TRUE,
                              !.queued = executor_shutdown(calls.queued),
                              !.cancelled = @ \/ executor_shutdown(calls.queued) < calls.queued]
    /\ UNCHANGED svars

\* shutdown(wait=True) returns when the worker threads have ended: the work
\* queue is empty and no future is running
StopReturns ==
    /\ calls.stopper = "shutdown"
    /\ calls.queued = 0
    /\ calls.active = 0
    /\ calls' = [calls EXCEPT !.stopper = "returned"]
    /\ UNCHANGED svars

StopNext ==
    \/ LoopTest
    \/ CollectDue
    \/ SubmitOne
    \/ WorkerStart
    \/ WorkerFinish
    \/ BatchDone
    \/ SleepOver
    \/ StopCalled
    \/ JoinReturns
    \/ StopReturns

StopSpec == StopInit /\ [][StopNext]_vars

\* C33: after stop() is called the loop thread begins no tick, no submitted
\* capture is cancelled, and no capture task starts after stop() has returned,
\* also when the join timed out while a tick was in progress.
C33_StopEndsLoopKeepsCaptures ==
    /\ ~calls.late_tick
    /\ ~calls.cancelled
    /\ ~calls.late_start

\* C33 witness: stop() has returned after a join that timed out while a tick
\* was waiting for its captures, and the tick is still in progress
C33_StopReturnedDuringTick ==
    /\ calls.stopper = "returned"
    /\ calls.loop \in {"submit", "as_completed"}

(* ------------------------------------------------------------------ *)
(* two jobs under fair ticking                                          *)
(* ------------------------------------------------------------------ *)

\* the loop thread keeps ticking (it does not stay for ever at the point where
\* check_and_capture is enabled), capture tasks terminate, time passes
FairPairSpec ==
    /\ PairSpec
    /\ []<>(tasks # {} \/ tick_sleep # 0)
    /\ WF_vars(CaptureAndUpdate)
    /\ WF_vars(Advance)

\* job j is active and its next capture time has come
DueNow(j) ==
    /\ j \in DOMAIN jobs
    /\ jobs[j].status = "active"
    /\ j \in DOMAIN scheduled_captures
    /\ Due(jobs[j], scheduled_captures[j], now)

\* the modelled interval is over and nothing keeps a later tick from taking job j
EndOfInterval(j) == now = Horizon /\ j \notin captures_in_progress

\* C34: under fair ticking, a job that is active and due is eventually
\* dispatched, unless it stops being active or due: no due active job is
\* skipped by every future tick.
C34_DueJobEventuallyDispatched ==
    \A j \in PairIds :
        DueNow(j) ~> ((\E task \in tasks : task.job_id = j) \/ ~DueNow(j) \/ EndOfInterval(j))

(* ------------------------------------------------------------------ *)
(* scheduled_captures against the persisted next_scheduled_capture_at  *)
(* ------------------------------------------------------------------ *)

\* _check_and_capture returns: the loop thread goes to its sleep
TickCompletes == tick_sleep = 0 /\ tick_sleep' = TickSleep

\* C35: when a tick has completed, the entry of every active job in
\* scheduled_captures equals the persisted next_scheduled_capture_at, also
\* after a PATCH that changed the schedule or re-enabled the job.
C35_MemoryEqualsPersistedNext ==
    [][TickCompletes =>
          \A j \in DOMAIN jobs' :
              (jobs'[j].status = "active" /\ j \in DOMAIN scheduled_captures') =>
                  scheduled_captures'[j] = jobs'[j].next_scheduled_capture_at]_vars

(* ------------------------------------------------------------------ *)
(* the tick and the jobs it does not select                             *)
(* ------------------------------------------------------------------ *)

\* the columns of a job row the scheduler writes
ScheduleColumns(row) ==
    <<row.status, row.next_scheduled_capture_at, row.warning_message>>

\* C36: a job that is disabled or completed when a tick selects its candidates
\* is not dispatched by that tick, and the tick leaves its status,
\* next_scheduled_capture_at and warning_message as they are.
C36_TickLeavesDisabledAndCompletedJobs ==
    [][TickStep =>
          \A j \in DOMAIN jobs :
              jobs[j].status \in {"disabled", "completed"} =>
                  /\ j \in DOMAIN jobs'
                  /\ ScheduleColumns(jobs'[j]) = ScheduleColumns(jobs[j])
                  /\ \A task \in tasks' : task.job_id # j]_vars

\* C36 witness: no PATCH was served and no capture was ever dispatched, so a
\* tick ran at every instant; a job was marked completed by a tick after its
\* end and the tick at the present instant, at least one tick later, has run.
C36_TickRanOverCompletedJob ==
    \E j \in DOMAIN jobs :
        /\ jobs[j].status = "completed"
        /\ jobs[j].next_scheduled_capture_at # Null
        /\ patches = 0
        /\ dispatched = {}
        /\ tick_sleep = TickSleep
        /\ now >= jobs[j].end_datetime + 2 * TickSleep

(* ------------------------------------------------------------------ *)
(* services/state_manager.py: StateManager.update_job_state            *)
(* ------------------------------------------------------------------ *)

ForceStatuses == {"none", "disabled", "completed", "active"}

\* StateManager.calculate_job_state: the persisted next capture is the pending one
sm_calculate_job_state(job, reference_time) ==
    calculate_job_state(job, reference_time, job.next_scheduled_capture_at)

\* update_job_state(job_id, force_status) at time t: the table after the call
\* and the job dict that is returned
update_job_state(db, j, force_status, t) ==
    LET job == db[j]
        calc == sm_calculate_job_state(job, t)
    IN  IF force_status \in {"disabled", "completed"}
        THEN [db |-> [db EXCEPT ![j].status = force_status,
                                ![j].next_scheduled_capture_at = Null],
              returned |-> [job EXCEPT !.status = force_status]]
        ELSE IF force_status = "active"
        THEN [db |-> [db EXCEPT ![j].status = calc[1],
                                ![j].next_scheduled_capture_at = calc[2]],
              returned |-> [job EXCEPT !.status = force_status]]
        ELSE IF calc[1] # job.status
                \/ (calc[2] # Null /\ calc[2] # job.next_scheduled_capture_at)
        THEN [db |-> [db EXCEPT ![j].status = calc[1],
                                ![j].next_scheduled_capture_at = calc[2],
                                ![j].warning_message = Null],
              returned |-> [job EXCEPT !.status = calc[1],
                                       !.next_scheduled_capture_at = calc[2]]]
        ELSE [db |-> db, returned |-> job]

NoStateCall == [force_status |-> "none", before |-> "none", returned |-> Null]

\* one job row, as create_job left it at T0
StateInit ==
    /\ now = T0
    /\ \E cfg \in StartupJobs : jobs = [j \in {1} |-> CreatedRow(cfg, T0)]
    /\ next_id = 2
    /\ captures = <<>>
    /\ scheduled_captures = <<>>
    /\ failure_counts = <<>>
    /\ captures_in_progress = {}
    /\ tasks = {}
    /\ tick_sleep = 0
    /\ patches = 0
    /\ marks = [j \in JobIds |-> 0]
    /\ dispatched = {}
    /\ redispatched = {}
    /\ streak = <<>>
    /\ sched_prev = [j \in JobIds |-> Null]
    /\ sched_last = [j \in JobIds |-> Null]
    /\ calls = NoStateCall

UpdateJobState ==
    \E j \in DOMAIN jobs, force_status \in ForceStatuses :
        LET r == update_job_state(jobs, j, force_status, now)
        IN  /\ jobs' = r.db
            /\ calls' = [force_status |-> force_status, before |-> jobs[j].status,
                         returned |-> r.returned]
            /\ UNCHANGED <<now, next_id, captures, scheduled_captures, failure_counts,
                           captures_in_progress, tasks, tick_sleep, patches, marks,
                           dispatched, redispatched, streak, sched_prev, sched_last>>

\* time passes between two calls
TimePasses ==
    /\ now + ClockStep <= Horizon
    /\ now' = now + ClockStep
    /\ UNCHANGED <<jobs, next_id, captures, scheduled_captures, failure_counts,
                   captures_in_progress, tasks, tick_sleep, patches, marks,
                   dispatched, redispatched, streak, sched_prev, sched_last, calls>>

StateNext == UpdateJobState \/ TimePasses

StateSpec == StateInit /\ [][StateNext]_vars

\* C37: after update_job_state(job_id, force_status='active') on a disabled
\* job the persisted status is not disabled, and the status of the returned
\* dict is the persisted status.
C37_ForceActiveReenables ==
    (calls.force_status = "active" /\ calls.before = "disabled") =>
        \A j \in DOMAIN jobs :
            /\ jobs[j].status # "disabled"
            /\ calls.returned.status = jobs[j].status

(* ------------------------------------------------------------------ *)
(* capture_count and storage_size of one job: capture_image,            *)
(* routers/captures.py, services/maintenance.py                         *)
(* ------------------------------------------------------------------ *)

\* capture rows ever inserted (captures.id is AUTOINCREMENT)
MaxRows == 3
FileSizes == {100, 250}
\* the orphaned files of an import request: on disk or no longer there
OrphanedFiles == [exists : BOOLEAN, file_size : FileSizes]

RECURSIVE SumSizes(_)
\* SELECT COALESCE(SUM(file_size), 0) over the rows (capture id -> file_size)
SumSizes(rows) ==
    IF DOMAIN rows = {} THEN 0
    ELSE LET id == Min(DOMAIN rows) IN rows[id] + SumSizes(Pop(rows, id))

\* SELECT COUNT(*), COALESCE(SUM(file_size), 0) FROM captures WHERE job_id = ?
CaptureStats(rows) == [count |-> Cardinality(DOMAIN rows), total_size |-> SumSizes(rows)]

RECURSIVE InsertFiles(_, _, _)
\* the INSERTs of import_orphaned_files for the files that still exist
InsertFiles(rows, next, files) ==
    IF files = {} THEN rows
    ELSE LET f == CHOOSE x \in files : TRUE
         IN  IF f.exists
             THEN InsertFiles(Put(rows, next, f.file_size), next + 1, files \ {f})
             ELSE InsertFiles(rows, next, files \ {f})

NoImport == [rows |-> <<>>, stats |-> CaptureStats(<<>>), open |-> FALSE, locked |-> FALSE]

\* calls.rows is the committed captures table of the job, calls.import the
\* connection of an import between its SELECT of the statistics and its UPDATE
StatsInit ==
    /\ Idle
    /\ calls = [rows |-> <<>>, next |-> 1, capture_count |-> 0, storage_size |-> 0,
                import |-> NoImport]

\* capture_image in a worker thread: INSERT and UPDATE jobs in one transaction
CaptureImage ==
    /\ ~calls.import.locked
    /\ calls.next <= MaxRows
    /\ \E file_size \in FileSizes :
           calls' = [calls EXCEPT !.rows = Put(calls.rows, calls.next, file_size),
                                  !.next = @ + 1,
                                  !.capture_count = @ + 1,
                                  !.storage_size = @ + file_size]
    /\ UNCHANGED svars

\* DELETE /api/captures/{id}, in the event loop thread
DeleteCapture ==
    /\ ~calls.import.open
    /\ \E id \in DOMAIN calls.rows :
           calls' = [calls EXCEPT
                        !.rows = Pop(calls.rows, id),
                        !.capture_count = IF @ > 0 THEN @ - 1 ELSE 0,
                        !.storage_size = IF @ >= calls.rows[id] THEN @ - calls.rows[id] ELSE 0]
    /\ UNCHANGED svars

\* cleanup_missing_captures: the DELETE opens the transaction in which the
\* statistics are read and written
CleanupMissingCaptures ==
    /\ ~calls.import.open
    /\ \E capture_ids \in SUBSET DOMAIN calls.rows :
           /\ capture_ids # {}
           /\ LET rows == [id \in DOMAIN calls.rows \ capture_ids |-> calls.rows[id]]
              IN  calls' = [calls EXCEPT !.rows = rows,
                                         !.capture_count = CaptureStats(rows).count,
                                         !.storage_size = CaptureStats(rows).total_size]
    /\ UNCHANGED svars

\* import_orphaned_files up to the SELECT of the statistics; the first INSERT
\* opens a transaction, which keeps other writers out until the commit
ImportSelect ==
    /\ ~calls.import.open
    /\ \E files \in SUBSET OrphanedFiles :
           /\ files # {}
           /\ Cardinality({f \in files : f.exists}) <= MaxRows + 1 - calls.next
           /\ LET rows == InsertFiles(calls.rows, calls.next, files)
              IN  calls' = [calls EXCEPT !.import = [rows |-> rows,
                                                     stats |-> CaptureStats(rows),
                                                     open |-> TRUE,
                                                     locked |-> rows # calls.rows]]
    /\ UNCHANGED svars

\* import_orphaned_files: the UPDATE of jobs and the commit
ImportUpdate ==
    /\ calls.import.open
    /\ calls' = [calls EXCEPT
                    !.rows = IF calls.import.locked THEN calls.import.rows ELSE @,
                    !.next = IF calls.import.locked
                             THEN @ + Cardinality(DOMAIN calls.import.rows)
                                    - Cardinality(DOMAIN calls.rows)
                             ELSE @,
                    !.capture_count = calls.import.stats.count,
                    !.storage_size = calls.import.stats.total_size,
                    !.import = NoImport]
    /\ UNCHANGED svars

StatsNext ==
    \/ CaptureImage
    \/ DeleteCapture
    \/ CleanupMissingCaptures
    \/ ImportSelect
    \/ ImportUpdate

StatsSpec == StatsInit /\ [][StatsNext]_vars

\* C38: capture_count is the number of capture rows of the job and
\* storage_size the sum of their file_size, in every state reached by
\* captures, capture deletion, maintenance cleanup and maintenance import.
C38_StatisticsMatchCaptureRows ==
    /\ calls.capture_count = Cardinality(DOMAIN calls.rows)
    /\ calls.storage_size = SumSizes(calls.rows)

(* ------------------------------------------------------------------ *)
(* services/job_state.py: the range of the next capture time            *)
(* ------------------------------------------------------------------ *)

\* instant t is inside the range of the job of the calls
InJobRange(t) ==
    /\ t >= calls.job.start_datetime
    /\ calls.job.end_datetime # Null => t <= calls.job.end_datetime

\* C39: a non-null next capture time returned by calculate_job_state lies
\* between start_datetime and end_datetime (when set), also when a pending
\* capture time is passed in.
C39_NextCaptureInJobRange ==
    (calls.last # NoCall /\ calls.last.result[2] # Null) => InJobRange(calls.last.result[2])

(* ------------------------------------------------------------------ *)
(* calculate_next_window_start of services/time_window.py and of        *)
(* services/job_state.py, called on the same input                      *)
(* ------------------------------------------------------------------ *)

\* the reference times: the times of day of CheckTimes on day 1
OpeningReferences == {SecondsPerDay + tod : tod \in CheckTimes}

NoOpeningCall == [reference_time |-> Null, start |-> Null, end |-> Null,
                  tw |-> Null, js |-> Null]

OpeningInit == Idle /\ calls = NoOpeningCall

\* both implementations evaluated on one reference time and one window
CalculateNextWindowStart ==
    \E reference_time \in OpeningReferences, start \in WindowTimes, end \in WindowTimes :
        /\ calls' = [reference_time |-> reference_time, start |-> start, end |-> end,
                     tw |-> tw_calculate_next_window_start(reference_time,
                                parse_time_string(start), parse_time_string(end)),
                     js |-> js_calculate_next_window_start(reference_time,
                                parse_time_string(start), parse_time_string(end))]
        /\ UNCHANGED svars

OpeningNext == CalculateNextWindowStart

OpeningSpec == OpeningInit /\ [][OpeningNext]_vars

\* the instants of days 0 to 3 at which a window that starts at minute ws opens
WindowOpenings(ws) == {At(day, 0, ws, 0) : day \in 0 .. 3}

\* C40: calculate_next_window_start returns the earliest instant after the
\* reference time whose time of day is the window start (inside the window
\* this is the first opening after the current window period), in
\* time_window.py and in job_state.py alike.
C40_NextWindowStartIsEarliestOpening ==
    calls # NoOpeningCall =>
        LET earliest == Min({o \in WindowOpenings(calls.start) : o > calls.reference_time})
        IN  /\ calls.tw = earliest
            /\ calls.js = earliest

=============================================================================
